---- MODULE Spec2Model ----
(***************************************************************************)
(* Model of scripts/run.py: one browser session that logs in, opens the    *)
(* Application Wise Report, applies the common filters, and for each of    *)
(* the two statuses (DELAYED, PENDING) shows the report and downloads its  *)
(* PDF; the saved files are then sent through Telegram.                    *)
(* Everything the host page, the network or the file system decides is a   *)
(* nondeterministic input of the action that observes it.                  *)
(***************************************************************************)
EXTENDS Integers, Sequences, FiniteSets, TLC

\* ------------------------------------------------------------------ bounds
\* The largest number of date-like tokens a Period text of the page holds.
MaxDateTokens == 2

\* The ticks of the clock in one timeout of the waits of select_division.
WaitTicks == 2

\* The candidate locators tried for one field.
MaxCandidates == 3

\* The largest number of options a select of the page holds.
MaxOptions == 3

\* ------------------------------------------------------- program constants
\* min_bytes of download_report_pdf_with_checks.
min_bytes == 7000

\* The two business runs, in the order of the flow.
Statuses == <<"DELAYED", "PENDING">>

Runs == 1..Len(Statuses)

\* Path(save_path).stat() of a path that holds no file: FileNotFoundError.
Absent == -1

\* File sizes the export can leave on disk: one below min_bytes, one not.
Sizes == {min_bytes - 1, min_bytes}

FileStates == Sizes \cup {Absent}

\* Values a date input can hold: empty, or the page's default date.
DateVals == {"", "26/07/2024"}

\* ------------------------------------------------------------- page texts
\* A Period text as the sequence of its whitespace-separated tokens.
DateToken == "26/07/2024"

PeriodText(word, n) ==
    (IF word THEN <<"Period:">> ELSE <<>>) \o [i \in 1..n |-> DateToken]

PeriodTexts ==
    {PeriodText(w, n) : w \in BOOLEAN, n \in 0..MaxDateTokens}

\* Number of tokens of text matched by \d{2,4}[-/]\d{1,2}[-/]\d{2,4}.
CountDates(text) == Cardinality({i \in 1..Len(text) : text[i] = DateToken})

\* "period" in text.lower()
HasPeriodWord(text) == \E i \in 1..Len(text) : text[i] = "Period:"

\* _looks_like_dated_period
LooksLikeDatedPeriod(text) ==
    /\ text # <<>>
    /\ HasPeriodWord(text)
    /\ CountDates(text) >= 2

\* What the page shows after a submission: data rows in a table body, the
\* text of the Period element, and an explicit "No records" marker.
Pages == [rows : BOOLEAN, period : PeriodTexts, marker : BOOLEAN]

BlankPage == [rows |-> FALSE, period |-> <<>>, marker |-> FALSE]

\* The polling loop of show_report_and_wait over a settled page.
ReadyAcceptingMarker(shown) ==
    LooksLikeDatedPeriod(shown.period) \/ shown.rows \/ shown.marker

ReadyPeriodOnly(shown) == LooksLikeDatedPeriod(shown.period)

Ready(shown) == LooksLikeDatedPeriod(shown.period) \/ shown.rows

Filters == {"circle", "division", "nature", "status"}

NoTrace == [f \in Filters |-> <<>>]

\* No click_and_wait_download call made yet in the current run.
NoCall == [direct |-> "none", popup |-> "none", ok |-> FALSE]

VARIABLES
    pc,             \* position in main / site_login_and_download
    run,            \* index in Statuses of the current run
    raised,         \* an exception is propagating out of main's callee
    err,            \* its message
    exitCode,       \* process exit status, -1 while running
    gotoTries,      \* page.goto attempts made
    navigated,      \* a page.goto call of the loop returned: the page is loaded
    captured_from,  \* default From date captured on opening the report
    captured_to,    \* default To date captured on opening the report
    fromVal,        \* value of the From date input
    toVal,          \* value of the To date input
    ok,             \* ok1..ok4: result of each filter's select_*
    tried,          \* per filter, the strategies the select_* call of the
                    \* step just taken went through
    warning,        \* dropdown_warning.txt written
    page,           \* what the report view shows
    submits,        \* Show Report triggers of the current run
    ok_show,        \* result of the last show_report_and_wait
    file,           \* per run, the size of the file at save_path or Absent
    strat,          \* the acquisition strategies the current run attempted
    ok_dl,          \* result of download_report_pdf_with_checks
    runState,       \* per run: notstarted, running, saved, failed
    tgLog,          \* uploads attempted by send_via_telegram, in order
    tgFailed,       \* send_via_telegram raised
    session,        \* the browser session of the flow: "open" or "closed"
    assigned,       \* the filters assigned so far, in the order of the calls
    lastCall,       \* what the last click_and_wait_download call did
    gather,         \* select_division's wait on the response and the options
    resolution,     \* one resolution of a field's control among candidates
    statusCtl,      \* the Status control under one or two select_status calls
    natureCtl       \* the Nature control under one or two select_nature_all calls

\* The helpers of the filter steps, each followed on a page fixture of its own.
helperVars == <<gather, resolution, statusCtl, natureCtl>>

vars == <<pc, run, raised, err, exitCode, gotoTries, navigated, captured_from, captured_to,
          fromVal, toVal, ok, tried, warning, page, submits, ok_show, file,
          strat, ok_dl, runState, tgLog, tgFailed, session, assigned, lastCall,
          gather, resolution, statusCtl, natureCtl>>

tgVars == <<tgLog, tgFailed>>

\* No waiter has completed, no condition has been satisfied.
Never == -1

GatherIdle == [phase |-> "idle", clock |-> 0, optsReady |-> FALSE,
               resp |-> "pending", opts |-> "pending",
               firstAt |-> Never, doneAt |-> Never]

ResolutionIdle == [phase |-> "idle", fn |-> "none", cands |-> <<>>, used |-> <<>>,
                   ok |-> FALSE, sel |-> 0]

StatusIdle == [phase |-> "idle", options |-> <<>>, selected |-> 0,
               wanted |-> <<>>, nativeFinds |-> FALSE, valueAt |-> 0,
               script |-> "nolabel", overlay |-> FALSE, ok |-> FALSE,
               before |-> 0, calls |-> 0]

NatureIdle == [phase |-> "idle", found |-> FALSE, multiple |-> FALSE,
               sel |-> <<>>, events |-> 0, ok |-> FALSE, calls |-> 0]

HelpersIdle ==
    /\ gather = GatherIdle
    /\ resolution = ResolutionIdle
    /\ statusCtl = StatusIdle
    /\ natureCtl = NatureIdle

\* The flow before its first step.
FlowInit ==
    /\ pc = "goto"
    /\ run = 1
    /\ raised = FALSE
    /\ err = ""
    /\ exitCode = -1
    /\ gotoTries = 0
    /\ navigated = FALSE
    /\ captured_from = ""
    /\ captured_to = ""
    /\ fromVal = ""
    /\ toVal = ""
    /\ ok = [f \in Filters |-> "unset"]
    /\ tried = NoTrace
    /\ warning = FALSE
    /\ page = BlankPage
    /\ submits = 0
    /\ ok_show = FALSE
    /\ file = [r \in Runs |-> Absent]
    /\ strat = <<>>
    /\ ok_dl = FALSE
    /\ runState = [r \in Runs |-> "notstarted"]
    /\ tgLog = <<>>
    /\ tgFailed = FALSE
    /\ session = "open"
    /\ assigned = <<>>
    /\ lastCall = NoCall

Init == FlowInit /\ HelpersIdle


\* ------------------------------------------------------------ exceptions
\* The __main__ block: sys.exit(1) on any exception of main, else the
\* interpreter ends with status 0.
ExitStatusAlwaysZero(exc) == 0

ExitStatus(exc) == IF exc THEN 1 ELSE 0

\* site_login_and_download handles no exception of its steps: an exception
\* raised while run r is current leaves the function and reaches the
\* __main__ block; nothing of the flow after the raising step is executed.
PropagateSkippingRun(r) ==
    IF r < Len(Statuses)
    THEN [pc |-> "status", run |-> r + 1, raised |-> FALSE]
    ELSE [pc |-> "done", run |-> r, raised |-> TRUE]

Propagate(r) == [pc |-> "done", run |-> r, raised |-> TRUE]

\* Leaving "async with async_playwright()" ends the browser session: the
\* page and the locals of site_login_and_download are gone.
CloseSession ==
    /\ session' = "closed"
    /\ page' = BlankPage
    /\ fromVal' = ""
    /\ toVal' = ""
    /\ captured_from' = ""
    /\ captured_to' = ""
    /\ tried' = NoTrace
    /\ ok_show' = FALSE
    /\ ok_dl' = FALSE

\* raise in a step of the flow, up to the exit of the process. The trace of
\* what the failed run attempted (submits, strat) is kept.
Raise(msg) ==
    LET t == Propagate(run) IN
    /\ pc' = t.pc
    /\ run' = t.run
    /\ raised' = t.raised
    /\ err' = msg
    /\ runState' = [runState EXCEPT ![run] = IF @ = "running" THEN "failed" ELSE @]
    /\ exitCode' = IF t.pc = "done" THEN ExitStatus(t.raised) ELSE exitCode
    /\ CloseSession
    /\ UNCHANGED <<submits, strat>>

\* The step goes on to pc value to; the variables Raise sets are named by
\* the step itself when it changes them.
Goes(to) ==
    /\ pc' = to
    /\ UNCHANGED <<run, raised, err, runState, exitCode, session>>

\* ----------------------------------------------------------------- login
GotoOutcomes == {"ok", "timeout", "error"}

\* The "for _ in range(2)" loop around page.goto: a PWTimeout is kept in
\* last_err and the loop goes on, success breaks, any other exception
\* leaves the loop at once; last_err is never reset.
GotoLoop(o1, o2) ==
    IF o1 = "ok" THEN [tries |-> 1, last_err |-> FALSE, exc |-> FALSE, loaded |-> TRUE]
    ELSE IF o1 = "error" THEN [tries |-> 1, last_err |-> FALSE, exc |-> TRUE, loaded |-> FALSE]
    ELSE [tries |-> 2, last_err |-> TRUE, exc |-> (o2 = "error"), loaded |-> (o2 = "ok")]

Goto ==
    /\ UNCHANGED helperVars
    /\ UNCHANGED <<assigned, lastCall>>
    /\ pc = "goto"
    /\ \E o1, o2 \in GotoOutcomes :
         LET g == GotoLoop(o1, o2) IN
         /\ gotoTries' = g.tries
         /\ navigated' = g.loaded
         /\ IF g.exc \/ g.last_err
            THEN Raise("goto")
            ELSE /\ Goes("login")
                 /\ UNCHANGED <<captured_from, captured_to, fromVal, toVal, tried,
                                page, submits, ok_show, strat, ok_dl>>
    /\ UNCHANGED <<ok, warning, file, tgVars>>

\* User type, credentials and the Login click are best effort; only the
\* wait for the page load after the click can raise.
Login ==
    /\ UNCHANGED <<helperVars, navigated>>
    /\ UNCHANGED <<assigned, lastCall>>
    /\ pc = "login"
    /\ \E loaded \in BOOLEAN :
         IF loaded
         THEN /\ Goes("open")
              /\ UNCHANGED <<captured_from, captured_to, fromVal, toVal, tried,
                             page, submits, ok_show, strat, ok_dl>>
         ELSE Raise("login")
    /\ UNCHANGED <<gotoTries, ok, warning, file, tgVars>>

\* open_application_wise: the menu clicks and waits raise when they fail;
\* otherwise the default dates of the page are captured.
OpenApplicationWise ==
    /\ UNCHANGED <<helperVars, navigated>>
    /\ UNCHANGED <<assigned, lastCall>>
    /\ pc = "open"
    /\ \E opened \in BOOLEAN, f, t \in DateVals :
         IF opened
         THEN /\ Goes("filters")
              /\ fromVal' = f
              /\ toVal' = t
              /\ captured_from' = f
              /\ captured_to' = t
              /\ UNCHANGED <<tried, page, submits, ok_show, strat, ok_dl>>
         ELSE Raise("[A] Could not open 'Application Wise Report'")
    /\ UNCHANGED <<gotoTries, ok, warning, file, tgVars>>

\* --------------------------------------------------------------- filters
\* select_circle: the native select first, the bootstrap dropdown only
\* when the native one did not select the option.
SelectCircle(native, boot) ==
    IF native THEN [ok |-> TRUE, tried |-> <<"native">>]
    ELSE [ok |-> boot, tried |-> <<"native", "bootstrap">>]

\* select_division: native is "a native select was found and the option
\* appeared in it within the 50 polls".
SelectDivision(native, boot) ==
    IF native THEN [ok |-> TRUE, tried |-> <<"native">>]
    ELSE [ok |-> boot, tried |-> <<"native", "bootstrap">>]

\* select_nature_all: one in-page script; found is "label and select found
\* and the script did not raise".
SelectNatureAll(found) == [ok |-> found, tried |-> <<"script">>]

ScriptOutcomes == {"true", "false", "exception"}

\* select_status: _native_select, then the in-page label scan whose result
\* is returned whatever it is; the bootstrap dropdown is reached only when
\* the scan raised.
SelectStatus(native, js, boot) ==
    IF native THEN [ok |-> TRUE, tried |-> <<"native">>]
    ELSE IF js = "true" THEN [ok |-> TRUE, tried |-> <<"native", "script">>]
    ELSE IF js = "false" THEN [ok |-> FALSE, tried |-> <<"native", "script">>]
    ELSE [ok |-> boot, tried |-> <<"native", "script", "bootstrap">>]

OkText(b) == IF b THEN "ok" ELSE "failed"

\* What the flow does with the flag a select_* returned: it is written to
\* dropdown_warning.txt or logged, and the flow goes on whatever it is.
FilterGateStrict(flag) == flag

FilterGate(flag) == TRUE

CommonFilterOrderDivisionFirst == <<"division", "circle", "nature">>

\* apply_common_filters awaits select_circle, select_division and
\* select_nature_all one after the other.
CommonFilterOrder == <<"circle", "division", "nature">>

\* apply_common_filters
ApplyCommonFilters ==
    /\ UNCHANGED <<helperVars, navigated>>
    /\ pc = "filters"
    /\ assigned' = assigned \o CommonFilterOrder
    /\ UNCHANGED lastCall
    /\ \E cn, cb, dn, db, nat \in BOOLEAN :
         LET c == SelectCircle(cn, cb)
             d == SelectDivision(dn, db)
             n == SelectNatureAll(nat)
         IN
         /\ ok' = [ok EXCEPT !["circle"] = OkText(c.ok),
                             !["division"] = OkText(d.ok),
                             !["nature"] = OkText(n.ok)]
         /\ warning' = TRUE
         /\ IF FilterGate(c.ok) /\ FilterGate(d.ok) /\ FilterGate(n.ok)
            THEN /\ Goes("status")
                 /\ tried' = [NoTrace EXCEPT !["circle"] = c.tried,
                                             !["division"] = d.tried,
                                             !["nature"] = n.tried]
                 /\ UNCHANGED <<captured_from, captured_to, fromVal, toVal,
                                page, submits, ok_show, strat, ok_dl>>
            ELSE Raise("filter")
    /\ UNCHANGED <<gotoTries, file, tgVars>>

\* Each date input found empty is refilled from the captured default.
Restore(cur, captured) == IF cur = "" /\ captured # "" THEN captured ELSE cur

StatusAssignmentsWithCommon == <<"circle", "division", "nature", "status">>

\* The controls set_status_and_download assigns: select_status is its only
\* select_* call.
StatusAssignments == <<"status">>

\* set_status_and_download up to the log line before Show Report: the
\* status is selected, then the date inputs are looked at.
\* clearFrom/clearTo: the page emptied the input on the status change.
SetStatus ==
    /\ UNCHANGED <<helperVars, navigated>>
    /\ pc = "status"
    /\ assigned' = assigned \o StatusAssignments
    /\ lastCall' = NoCall
    /\ \E sn, sb, clearFrom, clearTo \in BOOLEAN, js \in ScriptOutcomes :
         LET s == SelectStatus(sn, js, sb)
             cur_from == IF clearFrom THEN "" ELSE fromVal
             cur_to == IF clearTo THEN "" ELSE toVal
         IN
         /\ ok' = [ok EXCEPT !["status"] = OkText(s.ok)]
         /\ IF FilterGate(s.ok)
            THEN /\ pc' = "show"
                 /\ runState' = [runState EXCEPT ![run] = "running"]
                 /\ tried' = [NoTrace EXCEPT !["status"] = s.tried]
                 /\ fromVal' = Restore(cur_from, captured_from)
                 /\ toVal' = Restore(cur_to, captured_to)
                 /\ submits' = 0
                 /\ strat' = <<>>
                 /\ UNCHANGED <<run, raised, err, exitCode, captured_from,
                                captured_to, page, ok_show, ok_dl, session>>
            ELSE Raise("filter")
    /\ UNCHANGED <<gotoTries, warning, file, tgVars>>

\* window.__keepDates after open_application_wise has fed the guard: the feed
\* is page.evaluate(expression, captured_from, captured_to), two arguments
\* after the expression where page.evaluate takes one, so the call raises
\* TypeError, which the except around it swallows; __keepDates keeps the
\* empty strings of the init script.
KeepDates(cf, ct) == [from |-> "", to |-> ""]

\* setBack of the init script on one date input
SetBack(value, keep) == IF keep # "" /\ value = "" THEN keep ELSE value

\* The value of a date input when Show Report is clicked: the host page may
\* clear it after the last write of the flow, and the guard's setBack may run
\* (interval of 500 ms, DOM mutations) between that and the click.
AtClick(value, cleared, guardRan, keep) ==
    IF ~cleared THEN value
    ELSE IF guardRan THEN SetBack("", keep)
    ELSE ""

\* ----------------------------------------------------------- Show Report
\* show_report_and_wait: clicked is "the button was clicked, by locator or
\* by the script fallback"; shown is the page once the report request has
\* settled, which the polling loop then reads.
ShowReportAndWait(clicked, shown) ==
    IF clicked
    THEN [raises |-> FALSE, page |-> shown, ok_show |-> Ready(shown)]
    ELSE [raises |-> TRUE, page |-> page, ok_show |-> FALSE]

\* ok_show = await show_report_and_wait(p)
ShowReport ==
    /\ UNCHANGED <<helperVars, navigated>>
    /\ UNCHANGED <<assigned, lastCall>>
    /\ pc = "show"
    /\ \E clicked, clearFrom, clearTo, guardRan \in BOOLEAN, shown \in Pages :
         LET s == ShowReportAndWait(clicked, shown)
             keep == KeepDates(captured_from, captured_to)
         IN
         IF s.raises
         THEN Raise("Could not click Show Report")
         ELSE /\ fromVal' = AtClick(fromVal, clearFrom, guardRan, keep.from)
              /\ toVal' = AtClick(toVal, clearTo, guardRan, keep.to)
              /\ page' = s.page
              /\ ok_show' = s.ok_show
              /\ submits' = submits + 1
              /\ tried' = NoTrace
              /\ Goes(IF s.ok_show THEN "gate" ELSE "retry")
              /\ UNCHANGED <<captured_from, captured_to, strat, ok_dl>>
    /\ UNCHANGED <<gotoTries, ok, warning, file, tgVars>>

RetryAllowedAlways(cf, ct) == TRUE

\* The condition under which a failed Show Report is tried again.
RetryAllowed(cf, ct) == cf # "" /\ ct # ""

\* if not ok_show: if captured_from and captured_to: re-apply the dates and
\* run show_report_and_wait once more.
RetryShowReport ==
    /\ UNCHANGED <<helperVars, navigated>>
    /\ UNCHANGED <<assigned, lastCall>>
    /\ pc = "retry"
    /\ IF RetryAllowed(captured_from, captured_to)
       THEN \E clicked, clearFrom, clearTo, guardRan \in BOOLEAN, shown \in Pages :
              LET s == ShowReportAndWait(clicked, shown)
                  keep == KeepDates(captured_from, captured_to)
              IN
              IF s.raises
              THEN Raise("Could not click Show Report")
              ELSE /\ fromVal' = AtClick(captured_from, clearFrom, guardRan, keep.from)
                   /\ toVal' = AtClick(captured_to, clearTo, guardRan, keep.to)
                   /\ page' = s.page
                   /\ ok_show' = s.ok_show
                   /\ submits' = submits + 1
                   /\ Goes("gate")
                   /\ UNCHANGED <<captured_from, captured_to, tried, strat, ok_dl>>
       ELSE /\ Goes("gate")
            /\ UNCHANGED <<captured_from, captured_to, fromVal, toVal, tried,
                           page, submits, ok_show, strat, ok_dl>>
    /\ UNCHANGED <<gotoTries, ok, warning, file, tgVars>>

\* The second test before the export: the Period text read again.
PeriodGateOpen(text) == TRUE

PeriodGate(text) == LooksLikeDatedPeriod(text)

\* if not ok_show: raise; then period_now is read and the export is refused
\* when it is not a dated Period line.
ReadinessGate ==
    /\ UNCHANGED <<helperVars, navigated>>
    /\ UNCHANGED <<assigned, lastCall>>
    /\ pc = "gate"
    /\ IF ~ok_show
       THEN Raise("[A] Show Report did not produce data")
       ELSE IF ~PeriodGate(page.period)
       THEN Raise("[A] Period line lacks dates after Show Report")
       ELSE /\ Goes("dl1")
            /\ UNCHANGED <<captured_from, captured_to, fromVal, toVal, tried,
                           page, submits, ok_show, strat, ok_dl>>
    /\ UNCHANGED <<gotoTries, ok, warning, file, tgVars>>


\* ----------------------------------------------------------- acquisition
\* What one call of click_and_wait_download meets:
\*   direct   the click fires a download, saved at save_path;
\*   popup    no download, but a popup with a document link whose download
\*            is saved at save_path;
\*   nothing  no download, and no popup or a popup without a document link
\*            or a failing one; also a PDF icon that is not found.
\* left is what save_as leaves at save_path: a size, or no file.
DownloadOutcomes == {"direct", "popup", "nothing"}

ClickAndWaitDownloadPopupOnly(outcome, left, before) ==
    IF outcome \in {"direct", "popup"}
    THEN [ok |-> TRUE, file |-> left, tried |-> <<"PopupWindow">>,
          direct |-> "none", popup |-> "saved", raises |-> FALSE]
    ELSE [ok |-> FALSE, file |-> before, tried |-> <<"PopupWindow">>,
          direct |-> "none", popup |-> "failed", raises |-> FALSE]

ClickAndWaitDownloadPopupAlways(outcome, left, before) ==
    IF outcome = "direct"
    THEN [ok |-> TRUE, file |-> left, tried |-> <<"DirectDownload", "PopupWindow">>,
          direct |-> "saved", popup |-> "failed", raises |-> FALSE]
    ELSE IF outcome = "popup"
    THEN [ok |-> TRUE, file |-> left, tried |-> <<"DirectDownload", "PopupWindow">>,
          direct |-> "failed", popup |-> "saved", raises |-> FALSE]
    ELSE [ok |-> FALSE, file |-> before, tried |-> <<"DirectDownload", "PopupWindow">>,
          direct |-> "failed", popup |-> "failed", raises |-> FALSE]

\* click_and_wait_download: the direct download inside try, the popup
\* inside the except of that try and inside a try of its own whose except
\* returns False. direct, popup: what each strategy did in this call;
\* raises: an exception leaves the call.
ClickAndWaitDownload(outcome, left, before) ==
    IF outcome = "direct"
    THEN [ok |-> TRUE, file |-> left, tried |-> <<"DirectDownload">>,
          direct |-> "saved", popup |-> "none", raises |-> FALSE]
    ELSE IF outcome = "popup"
    THEN [ok |-> TRUE, file |-> left, tried |-> <<"DirectDownload", "PopupWindow">>,
          direct |-> "failed", popup |-> "saved", raises |-> FALSE]
    ELSE [ok |-> FALSE, file |-> before, tried |-> <<"DirectDownload", "PopupWindow">>,
          direct |-> "failed", popup |-> "failed", raises |-> FALSE]

\* Where download_report_pdf_with_checks goes after its first download
\* returned True and left a file of this size (Absent: stat raises
\* FileNotFoundError).
AfterFirst(size) ==
    IF size = Absent THEN "dl3"
    ELSE IF size < min_bytes THEN "dl2"
    ELSE "return_true"

\* ... after the retry of a too small file.
AfterRetrySmall(size) ==
    IF size = Absent THEN "dl3"
    ELSE IF size < min_bytes THEN "return_false"
    ELSE "return_true"

\* ... after the retry of a missing file: no size is read.
AfterRetryMissing(size) == "return_true"

\* The three places of download_report_pdf_with_checks that call
\* click_and_wait_download, each followed by its own test of the result.
AfterDownload(at, size) ==
    IF at = "dl1" THEN AfterFirst(size)
    ELSE IF at = "dl2" THEN AfterRetrySmall(size)
    ELSE AfterRetryMissing(size)

Acquire(at) ==
    \E outcome \in DownloadOutcomes, left \in FileStates :
      LET d == ClickAndWaitDownload(outcome, left, file[run])
          to == IF d.ok THEN AfterDownload(at, d.file) ELSE "return_false"
      IN
      /\ lastCall' = [direct |-> d.direct, popup |-> d.popup, ok |-> d.ok]
      /\ IF d.raises
         THEN /\ Raise("download")
              /\ UNCHANGED file
         ELSE /\ file' = [file EXCEPT ![run] = d.file]
              /\ strat' = strat \o d.tried
              /\ ok_dl' = (to = "return_true")
              /\ Goes(IF to \in {"return_true", "return_false"} THEN "finish" ELSE to)
              /\ UNCHANGED <<captured_from, captured_to, fromVal, toVal,
                             tried, page, submits, ok_show>>
      /\ UNCHANGED <<gotoTries, navigated, ok, warning, tgVars, assigned, helperVars>>

\* ok_dl = click_and_wait_download(...), then the size test.
DownloadFirst == pc = "dl1" /\ Acquire("dl1")

\* "File looks too small; retrying once after 3s"
DownloadRetrySmall == pc = "dl2" /\ Acquire("dl2")

\* except FileNotFoundError: "Save failed; retrying once after 3s"
DownloadRetryMissing == pc = "dl3" /\ Acquire("dl3")

\* What set_status_and_download does with the result of the acquisition.
RunFailsNever(result) == FALSE

RunFails(result) == ~result

\* if not ok_dl: raise; otherwise the run is saved and the flow goes on to
\* the next status, or closes the browser and returns the two paths.
FinishRun ==
    /\ UNCHANGED <<helperVars, navigated>>
    /\ pc = "finish"
    /\ lastCall' = IF RunFails(ok_dl) THEN lastCall ELSE NoCall
    /\ UNCHANGED assigned
    /\ IF RunFails(ok_dl)
       THEN Raise("[A] Could not obtain a valid PDF")
       ELSE /\ runState' = [runState EXCEPT ![run] = "saved"]
            /\ submits' = 0
            /\ strat' = <<>>
            /\ UNCHANGED <<raised, err, exitCode>>
            /\ IF run < Len(Statuses)
               THEN /\ run' = run + 1
                    /\ pc' = "status"
                    /\ ok_show' = FALSE
                    /\ ok_dl' = FALSE
                    /\ UNCHANGED <<captured_from, captured_to, fromVal, toVal,
                                   tried, page, session>>
               ELSE /\ run' = run
                    /\ pc' = "telegram"
                    /\ CloseSession
    /\ UNCHANGED <<gotoTries, ok, warning, file, tgVars>>

\* -------------------------------------------------------------- delivery
\* What one upload meets: status 200, another status, or an exception of
\* open() or requests.post.
UploadOutcomes == {"200", "rejected", "raises"}

\* The loop of send_via_telegram from file i on: each file is posted in
\* turn; the first upload that is not a 200 raises and ends the loop.
RECURSIVE UploadAllFrom(_, _, _)
UploadAllFrom(i, outs, log) ==
    IF i > Len(outs) THEN [log |-> log, raised |-> FALSE]
    ELSE LET r == UploadAllFrom(i + 1, outs, Append(log, [file |-> i, result |-> outs[i]])) IN
         [log |-> r.log, raised |-> r.raised \/ outs[i] # "200"]

RECURSIVE UploadFrom(_, _, _)
UploadFrom(i, outs, log) ==
    IF i > Len(outs) THEN [log |-> log, raised |-> FALSE]
    ELSE LET l2 == Append(log, [file |-> i, result |-> outs[i]]) IN
         IF outs[i] = "200" THEN UploadFrom(i + 1, outs, l2)
         ELSE [log |-> l2, raised |-> TRUE]

SendViaTelegramAll(configured, outs) ==
    IF ~configured THEN [log |-> <<>>, raised |-> FALSE]
    ELSE UploadAllFrom(1, outs, <<>>)

\* send_via_telegram: nothing is sent without both credentials.
SendViaTelegram(configured, outs) ==
    IF ~configured THEN [log |-> <<>>, raised |-> FALSE]
    ELSE UploadFrom(1, outs, <<>>)

\* main: "except Exception" around send_via_telegram.
DeliveryCaughtNever == FALSE

DeliveryCaught == TRUE

\* main after site_login_and_download returned the files, up to the exit.
Deliver ==
    /\ UNCHANGED <<helperVars, navigated>>
    /\ UNCHANGED <<session, assigned, lastCall>>
    /\ pc = "telegram"
    /\ \E configured \in BOOLEAN, outs \in [Runs -> UploadOutcomes] :
         LET t == SendViaTelegram(configured, outs)
             exc == t.raised /\ ~DeliveryCaught
         IN
         /\ tgLog' = t.log
         /\ tgFailed' = t.raised
         /\ raised' = exc
         /\ exitCode' = ExitStatus(exc)
    /\ pc' = "done"
    /\ UNCHANGED <<run, err, runState, gotoTries, captured_from, captured_to,
                   fromVal, toVal, ok, tried, warning, page, submits, ok_show,
                   file, strat, ok_dl>>

Next ==
    \/ Goto
    \/ Login
    \/ OpenApplicationWise
    \/ ApplyCommonFilters
    \/ SetStatus
    \/ ShowReport
    \/ RetryShowReport
    \/ ReadinessGate
    \/ DownloadFirst
    \/ DownloadRetrySmall
    \/ DownloadRetryMissing
    \/ FinishRun
    \/ Deliver

Spec == Init /\ [][Next]_vars

\* Every step of the script is a bounded wait or a computation: the process
\* always takes its next step.
FairSpec == Spec /\ WF_vars(Next)

TypeOK ==
    /\ pc \in {"goto", "login", "open", "filters", "status", "show", "retry",
               "gate", "dl1", "dl2", "dl3", "finish", "telegram", "done"}
    /\ run \in Runs
    /\ raised \in BOOLEAN
    /\ exitCode \in {-1, 0, 1}
    /\ gotoTries \in 0..2
    /\ navigated \in BOOLEAN
    /\ captured_from \in DateVals /\ captured_to \in DateVals
    /\ fromVal \in DateVals /\ toVal \in DateVals
    /\ ok \in [Filters -> {"unset", "ok", "failed"}]
    /\ warning \in BOOLEAN
    /\ page \in Pages
    /\ submits \in 0..2
    /\ ok_show \in BOOLEAN
    /\ file \in [Runs -> FileStates]
    /\ ok_dl \in BOOLEAN
    /\ runState \in [Runs -> {"notstarted", "running", "saved", "failed"}]
    /\ tgFailed \in BOOLEAN
    /\ session \in {"open", "closed"}
    /\ Len(assigned) <= Cardinality(Filters) + Len(Statuses) - 1
    /\ lastCall.ok \in BOOLEAN


\* ====================================================== helpers of the filters
\* Each helper below is followed step by step on a page fixture of its own:
\* ControlSpec starts one of them and leaves the flow where it is.
flowVars == <<pc, run, raised, err, exitCode, gotoTries, navigated, captured_from, captured_to,
              fromVal, toVal, ok, tried, warning, page, submits, ok_show, file,
              strat, ok_dl, runState, tgLog, tgFailed, session, assigned, lastCall>>

Min(S) == CHOOSE x \in S : \A y \in S : x <= y

\* ------------------------------------- select_division: wait for the options
\* select_division creates wait_for_any_response(timeout_ms=7000) and
\* wait_options_increase(timeout_ms=7000) and awaits asyncio.gather of the
\* two. The clock counts ticks of the 7000 ms, WaitTicks of them in all.
\* resp, opts: "pending" while the waiter runs, then what it returned.
GatherStart(ready) == [GatherIdle EXCEPT !.phase = "waiting", !.optsReady = ready]

Satisfied(g) == IF g.firstAt = Never THEN g.clock ELSE g.firstAt

\* page.wait_for_response resolves on a response whose URL matches.
ResponseObserved ==
    /\ gather.phase = "waiting"
    /\ gather.resp = "pending"
    /\ gather' = [gather EXCEPT !.resp = "true", !.firstAt = Satisfied(gather)]
    /\ UNCHANGED <<flowVars, resolution, statusCtl, natureCtl>>

\* The page fills the dependent select: its option count reaches min_count.
OptionsPopulate ==
    /\ gather.phase = "waiting"
    /\ ~gather.optsReady
    /\ gather' = [gather EXCEPT !.optsReady = TRUE]
    /\ UNCHANGED <<flowVars, resolution, statusCtl, natureCtl>>

\* wait_options_increase: a poll that counts at least min_count options.
PollOptions ==
    /\ gather.phase = "waiting"
    /\ gather.opts = "pending"
    /\ gather.optsReady
    /\ gather' = [gather EXCEPT !.opts = "true", !.firstAt = Satisfied(gather)]
    /\ UNCHANGED <<flowVars, resolution, statusCtl, natureCtl>>

\* asyncio.gather(wait_resp, wait_opts) is done when both awaitables are.
GatherDone(g) == g.resp # "pending" /\ g.opts # "pending"

\* Time passes while a waiter is pending; a poll that would succeed and a
\* return that is due happen before the next tick.
Tick ==
    /\ gather.phase = "waiting"
    /\ gather.clock < WaitTicks
    /\ ~GatherDone(gather)
    /\ ~(gather.opts = "pending" /\ gather.optsReady)
    /\ gather' = [gather EXCEPT !.clock = @ + 1]
    /\ UNCHANGED <<flowVars, resolution, statusCtl, natureCtl>>

\* wait_for_any_response: the timeout of wait_for_response is caught, False.
ResponseTimeout ==
    /\ gather.phase = "waiting"
    /\ gather.clock = WaitTicks
    /\ gather.resp = "pending"
    /\ gather' = [gather EXCEPT !.resp = "false"]
    /\ UNCHANGED <<flowVars, resolution, statusCtl, natureCtl>>

\* wait_options_increase: the loop ends at its deadline, False.
OptionsTimeout ==
    /\ gather.phase = "waiting"
    /\ gather.clock = WaitTicks
    /\ gather.opts = "pending"
    /\ ~gather.optsReady
    /\ gather' = [gather EXCEPT !.opts = "false"]
    /\ UNCHANGED <<flowVars, resolution, statusCtl, natureCtl>>

\* await asyncio.gather(...) returns; its result list is dropped.
GatherReturns ==
    /\ gather.phase = "waiting"
    /\ GatherDone(gather)
    /\ gather' = [gather EXCEPT !.phase = "returned", !.doneAt = gather.clock]
    /\ UNCHANGED <<flowVars, resolution, statusCtl, natureCtl>>

\* --------------------------------------------- resolution of a field's control
\* A candidate locator on the page: "none" when locator(sel).count() is 0,
\* "takes" when it matches a select on which select_option succeeds (by label
\* or by value), "refuses" when it matches and both select_option calls raise.
CandStates == {"none", "takes", "refuses"}

CandLists == [1..MaxCandidates -> CandStates]

NativeSelectCommitFirst(cands) ==
    LET M == {i \in 1..Len(cands) : cands[i] # "none"} IN
    IF M = {} THEN [ok |-> FALSE, sel |-> 0, used |-> <<>>]
    ELSE [ok |-> cands[Min(M)] = "takes",
          sel |-> IF cands[Min(M)] = "takes" THEN Min(M) ELSE 0,
          used |-> <<Min(M)>>]

\* The three for loops of _native_select over label_based, id_candidates and
\* name_candidates, as one loop over the candidates in that order. used: the
\* candidates select_option was called on.
RECURSIVE NativeLoop(_, _, _)
NativeLoop(cands, i, used) ==
    IF i > Len(cands) THEN [ok |-> FALSE, sel |-> 0, used |-> used]
    ELSE IF cands[i] = "none" THEN NativeLoop(cands, i + 1, used)
    ELSE IF cands[i] = "takes" THEN [ok |-> TRUE, sel |-> i, used |-> Append(used, i)]
    ELSE NativeLoop(cands, i + 1, Append(used, i))

\* _native_select
NativeSelect(cands) == NativeLoop(cands, 1, <<>>)

\* select_division: native_sel is the first candidate with a count, the loops
\* break there; the 50 polls then work on native_sel alone.
ResolveDivision(cands) ==
    LET M == {i \in 1..Len(cands) : cands[i] # "none"} IN
    IF M = {} THEN [ok |-> FALSE, sel |-> 0, used |-> <<>>]
    ELSE [ok |-> cands[Min(M)] = "takes", sel |-> Min(M), used |-> <<Min(M)>>]

NativeSelectCall ==
    /\ resolution.phase = "ready"
    /\ resolution.fn = "native"
    /\ LET r == NativeSelect(resolution.cands) IN
       resolution' = [resolution EXCEPT !.phase = "done", !.ok = r.ok,
                                        !.sel = r.sel, !.used = r.used]
    /\ UNCHANGED <<flowVars, gather, statusCtl, natureCtl>>

ResolveDivisionCall ==
    /\ resolution.phase = "ready"
    /\ resolution.fn = "division"
    /\ LET r == ResolveDivision(resolution.cands) IN
       resolution' = [resolution EXCEPT !.phase = "done", !.ok = r.ok,
                                        !.sel = r.sel, !.used = r.used]
    /\ UNCHANGED <<flowVars, gather, statusCtl, natureCtl>>

\* ------------------------------------------------------- the Status control
\* An option text is the sequence of its words.
Words == {"DELAYED", "Delayed", "NOT", "PENDING"}

\* toLowerCase of the in-page norm; trim has nothing to remove from words.
Lower(w) ==
    CASE w \in {"DELAYED", "Delayed"} -> "delayed"
      [] w = "NOT" -> "not"
      [] w = "PENDING" -> "pending"
      [] OTHER -> w

norm(text) == [i \in 1..Len(text) |-> Lower(text[i])]

\* String.prototype.includes, on texts as word sequences
Includes(txt, w) ==
    \E i \in 1..(Len(txt) - Len(w) + 1) : SubSeq(txt, i, i + Len(w) - 1) = w

OptionTexts == {<<"DELAYED">>, <<"Delayed">>, <<"NOT", "DELAYED">>, <<"PENDING">>}

OptionLists == UNION {[1..n -> OptionTexts] : n \in 1..MaxOptions}

WantedTexts == {<<Statuses[r]>> : r \in Runs}

\* select_option(sel, label=option_text): the option with that label
ExactAt(options, wanted) == {i \in 1..Len(options) : options[i] = wanted}

\* the options the label scan and the overlay menu's has_text filter accept
ContainsAt(options, wanted) ==
    {i \in 1..Len(options) : Includes(norm(options[i]), norm(wanted))}

FirstOf(S) == IF S = {} THEN 0 ELSE Min(S)

\* _bootstrap_select: the first menu item having the text is clicked.
BootstrapSelect(c) ==
    LET at == FirstOf(ContainsAt(c.options, c.wanted)) IN
    IF c.overlay /\ at # 0 THEN [ok |-> TRUE, selected |-> at]
    ELSE [ok |-> FALSE, selected |-> c.selected]

\* The script of select_status: false without the label or its select, else
\* selectedIndex = the first option whose text includes the wanted text.
StatusScript(c) ==
    LET at == FirstOf(ContainsAt(c.options, c.wanted)) IN
    IF c.script = "runs" /\ at # 0 THEN [ok |-> TRUE, selected |-> at]
    ELSE [ok |-> FALSE, selected |-> c.selected]

\* select_status on the control c: _native_select (by label, then by value),
\* then the script, whose result is returned unless page.evaluate raised, and
\* only then _bootstrap_select.
SelectStatusOn(c) ==
    IF c.nativeFinds /\ ExactAt(c.options, c.wanted) # {}
    THEN [ok |-> TRUE, selected |-> Min(ExactAt(c.options, c.wanted))]
    ELSE IF c.nativeFinds /\ c.valueAt # 0
    THEN [ok |-> TRUE, selected |-> c.valueAt]
    ELSE IF c.script # "exception" THEN StatusScript(c)
    ELSE BootstrapSelect(c)

SelectStatusCall ==
    /\ statusCtl.phase \in {"ready", "applied"}
    /\ statusCtl.calls < 2
    /\ LET r == SelectStatusOn(statusCtl) IN
       statusCtl' = [statusCtl EXCEPT !.phase = "applied", !.ok = r.ok,
                                      !.before = statusCtl.selected,
                                      !.selected = r.selected,
                                      !.calls = @ + 1]
    /\ UNCHANGED <<flowVars, gather, resolution, natureCtl>>

\* ------------------------------------------------------- the Nature control
\* o.selected = true on option i: in a select without the multiple attribute
\* the other options are deselected.
SetSelected(sel, i, multiple) ==
    IF multiple THEN [sel EXCEPT ![i] = TRUE]
    ELSE [j \in 1..Len(sel) |-> j = i]

\* for (const o of sel.options) { if (!o.selected) { o.selected = true; changed = true; } }
RECURSIVE SelectAllLoop(_, _, _, _)
SelectAllLoop(sel, i, multiple, changed) ==
    IF i > Len(sel) THEN [sel |-> sel, changed |-> changed]
    ELSE IF sel[i] THEN SelectAllLoop(sel, i + 1, multiple, changed)
    ELSE SelectAllLoop(SetSelected(sel, i, multiple), i + 1, multiple, TRUE)

SelectNatureAllNotifying(c) ==
    IF ~c.found THEN [ok |-> FALSE, sel |-> c.sel, events |-> 0]
    ELSE [ok |-> TRUE, sel |-> SelectAllLoop(c.sel, 1, c.multiple, FALSE).sel,
          events |-> 2]

\* The script of select_nature_all on the control c; events: the input and
\* change events it dispatched.
SelectNatureAllOn(c) ==
    IF ~c.found THEN [ok |-> FALSE, sel |-> c.sel, events |-> 0]
    ELSE LET r == SelectAllLoop(c.sel, 1, c.multiple, FALSE) IN
         [ok |-> TRUE, sel |-> r.sel, events |-> IF r.changed THEN 2 ELSE 0]

SelectNatureAllCall ==
    /\ natureCtl.phase \in {"ready", "applied"}
    /\ natureCtl.calls < 2
    /\ LET r == SelectNatureAllOn(natureCtl) IN
       natureCtl' = [natureCtl EXCEPT !.phase = "applied", !.ok = r.ok,
                                      !.sel = r.sel, !.events = r.events,
                                      !.calls = @ + 1]
    /\ UNCHANGED <<flowVars, gather, resolution, statusCtl>>

SelectionLists(multiple) ==
    LET all == UNION {[1..n -> BOOLEAN] : n \in 1..MaxOptions} IN
    IF multiple THEN all
    ELSE {s \in all : Cardinality({i \in 1..Len(s) : s[i]}) <= 1}

\* ------------------------------------------------------------- ControlSpec
ControlInit ==
    /\ FlowInit
    /\ \/ /\ \E ready \in BOOLEAN : gather = GatherStart(ready)
          /\ resolution = ResolutionIdle
          /\ statusCtl = StatusIdle
          /\ natureCtl = NatureIdle
       \/ /\ \E fn \in {"native", "division"}, cands \in CandLists :
               resolution = [ResolutionIdle EXCEPT !.phase = "ready", !.fn = fn,
                                                   !.cands = cands]
          /\ gather = GatherIdle
          /\ statusCtl = StatusIdle
          /\ natureCtl = NatureIdle
       \/ /\ \E options \in OptionLists, wanted \in WantedTexts,
                nativeFinds, overlay \in BOOLEAN,
                script \in {"runs", "nolabel", "exception"} :
               \E selected \in 1..Len(options), valueAt \in 0..Len(options) :
                 statusCtl = [StatusIdle EXCEPT !.phase = "ready",
                                                !.options = options,
                                                !.selected = selected,
                                                !.wanted = wanted,
                                                !.nativeFinds = nativeFinds,
                                                !.valueAt = valueAt,
                                                !.script = script,
                                                !.overlay = overlay]
          /\ gather = GatherIdle
          /\ resolution = ResolutionIdle
          /\ natureCtl = NatureIdle
       \/ /\ \E found, multiple \in BOOLEAN :
               \E sel \in SelectionLists(multiple) :
                 natureCtl = [NatureIdle EXCEPT !.phase = "ready", !.found = found,
                                                !.multiple = multiple, !.sel = sel]
          /\ gather = GatherIdle
          /\ resolution = ResolutionIdle
          /\ statusCtl = StatusIdle

ControlNext ==
    \/ ResponseObserved
    \/ OptionsPopulate
    \/ PollOptions
    \/ Tick
    \/ ResponseTimeout
    \/ OptionsTimeout
    \/ GatherReturns
    \/ NativeSelectCall
    \/ ResolveDivisionCall
    \/ SelectStatusCall
    \/ SelectNatureAllCall

ControlSpec == ControlInit /\ [][ControlNext]_vars


\* =================================================================== claims
NoValidPdf == "[A] Could not obtain a valid PDF"
NoData == "[A] Show Report did not produce data"
NoDates == "[A] Period line lacks dates after Show Report"

\* A Period text with the word and at least two date tokens.
TwoDateTokens(text) == HasPeriodWord(text) /\ CountDates(text) >= 2

\* C1: whenever download_report_pdf_with_checks returns True, the file at
\* save_path exists and its size is at least min_bytes, on every path.
C1_AcceptedFileHasMinSize ==
    (pc = "finish" /\ ok_dl) => (file[run] # Absent /\ file[run] >= min_bytes)

\* C2 as stated: once the report is ready, the run never fails with "could
\* not obtain a valid PDF".
C2_NeverFailsOnceReady == err # NoValidPdf

\* C2 amended: once the report is ready the acquisition step ends in one of
\* two ways: it returns True and the run is recorded as saved, or it returns
\* False and the run fails with "Could not obtain a valid PDF", exit 1.
C2_SavedOrFailed ==
    [][pc = "finish" =>
         \/ ok_dl /\ runState'[run] = "saved" /\ err' = err /\ exitCode' = -1
         \/ ~ok_dl /\ runState'[run] = "failed" /\ err' = NoValidPdf
                   /\ exitCode' = 1]_vars

C2_Witness ==
    /\ pc = "done"
    /\ err = NoValidPdf
    /\ runState[run] = "failed"
    /\ strat # <<>>
    /\ exitCode = 1

\* C3 as stated: after a DirectDownload that left a file below the minimum,
\* the next strategy attempted is PopupWindow.
C3_SmallDirectThenPopup ==
    [][(pc = "dl2" /\ strat = <<"DirectDownload">>) =>
         (Len(strat') > Len(strat) /\ strat'[Len(strat) + 1] = "PopupWindow")]_vars

\* C3 amended: after a download that left a file below the minimum, the
\* export is repeated: the next strategy attempted is DirectDownload again,
\* PopupWindow follows it only when it fires no download, and a file that
\* is still below the minimum ends the acquisition as failed.
C3_SmallThenDirectAgain ==
    [][pc = "dl2" =>
         /\ Len(strat') > Len(strat)
         /\ strat'[Len(strat) + 1] = "DirectDownload"
         /\ (Len(strat') = Len(strat) + 2 => strat'[Len(strat) + 2] = "PopupWindow")
         /\ Len(strat') <= Len(strat) + 2
         /\ ((file'[run] # Absent /\ file'[run] < min_bytes)
               => (pc' = "finish" /\ ~ok_dl'))]_vars

C3_Witness ==
    /\ pc = "finish"
    /\ strat = <<"DirectDownload", "DirectDownload">>
    /\ file[run] = min_bytes
    /\ ok_dl

\* C4 as stated: when the DELAYED run has failed, the PENDING run is still
\* attempted before the process ends.
C4_SiblingStillAttempted ==
    (pc = "done" /\ runState[1] = "failed") => runState[2] # "notstarted"

\* C4 amended: a failure of the DELAYED run ends the whole flow: the PENDING
\* run is never attempted, nothing is delivered, the exit status is 1.
C4_FailureEndsFlow ==
    runState[1] = "failed" =>
        /\ runState[2] = "notstarted"
        /\ pc = "done"
        /\ exitCode = 1
        /\ tgLog = <<>>

C4_Witness ==
    /\ runState[1] = "failed"
    /\ err = NoData
    /\ pc = "done"

\* C5 as stated: a settled page with the empty-result marker and no data
\* rows never makes the run fail.
C5_EmptyMarkerAccepted ==
    [][(pc = "gate" /\ page.marker /\ ~page.rows) => runState'[run] # "failed"]_vars

\* C5 amended: the empty-result marker is not consulted. With the marker and
\* no data rows the run goes on to the export exactly when the Period text
\* has two date tokens; otherwise it fails with "Show Report did not produce
\* data" and the exit status is 1.
C5_EmptyMarkerIgnored ==
    [][(pc = "gate" /\ page.marker /\ ~page.rows) =>
         IF TwoDateTokens(page.period)
         THEN pc' = "dl1" /\ exitCode' = -1 /\ runState'[run] = "running"
         ELSE runState'[run] = "failed" /\ err' = NoData /\ exitCode' = 1]_vars

C5_Witness ==
    /\ pc = "gate"
    /\ page.marker
    /\ ~page.rows
    /\ ~TwoDateTokens(page.period)
    /\ submits = 2

\* C6 as stated: a run whose submission shows data rows goes on to the
\* acquisition, with or without a dated Period line.
C6_RowsAloneProceed ==
    [][(pc = "gate" /\ page.rows) => pc' = "dl1"]_vars

\* C6 amended: data rows alone, or a dated Period line alone, make the check
\* of show_report_and_wait succeed; the run goes on to the acquisition only
\* when the Period text has two date tokens, and with data rows but no
\* dated Period line it fails with "Period line lacks dates".
C6_RowsNeedDatedPeriod ==
    [][/\ (pc \in {"show", "retry"} /\ submits' = submits + 1)
            => (ok_show' = (page'.rows \/ TwoDateTokens(page'.period)))
       /\ (pc = "gate" /\ page.rows)
            => IF TwoDateTokens(page.period)
               THEN pc' = "dl1"
               ELSE runState'[run] = "failed" /\ err' = NoDates]_vars

C6_Witness ==
    /\ pc = "gate"
    /\ page.rows
    /\ ok_show
    /\ ~TwoDateTokens(page.period)

\* C7: at the end of the process, any failure (navigation, login, Show
\* Report not clickable, readiness, no valid PDF) gives a non-zero exit
\* status, and the status is 0 only when both runs were saved.
C7_ExitStatus ==
    pc = "done" =>
        /\ exitCode \in {0, 1}
        /\ ((err # "" \/ \E r \in Runs : runState[r] = "failed") => exitCode = 1)
        /\ (exitCode = 0 => \A r \in Runs : runState[r] = "saved")

C7_Witness ==
    /\ pc = "done"
    /\ runState[1] = "saved"
    /\ runState[2] = "failed"
    /\ err = NoValidPdf
    /\ exitCode = 1

\* C8: a failing delivery changes no saved file and no run's state, and the
\* process still exits with status 0.
C8_DeliveryFailureHarmless ==
    [][pc = "telegram" =>
         /\ file' = file
         /\ runState' = runState
         /\ exitCode' = 0]_vars

C8_Witness ==
    /\ pc = "done"
    /\ tgFailed
    /\ exitCode = 0
    /\ \A r \in Runs : runState[r] = "saved"

\* C9 as stated: with credentials configured, every file of the list gets
\* its upload attempt.
C9_EveryFileAttempted ==
    (pc = "done" /\ tgLog # <<>>) => Len(tgLog) = Len(Statuses)

\* C9 amended: the files are uploaded in list order up to the first upload
\* that fails: that failure ends the delivery, the later files are not
\* attempted.
C9_StopsAtFirstFailure ==
    /\ Len(tgLog) <= Len(Statuses)
    /\ \A i \in 1..Len(tgLog) :
         /\ tgLog[i].file = i
         /\ (i < Len(tgLog) => tgLog[i].result = "200")
    /\ tgFailed = (tgLog # <<>> /\ tgLog[Len(tgLog)].result # "200")
    /\ (tgLog # <<>> /\ ~tgFailed) => Len(tgLog) = Len(Statuses)

C9_Witness ==
    /\ pc = "done"
    /\ Len(tgLog) = 1
    /\ tgLog[1].result = "rejected"
    /\ tgFailed

\* C10 as stated: with a filter that could not be applied, no report is
\* submitted and no artifact is exported.
C10_UnappliedFilterFailsRun ==
    (\E f \in Filters : ok[f] = "failed") =>
        (submits = 0 /\ strat = <<>> /\ \A r \in Runs : runState[r] # "saved")

\* C10 amended: a filter that none of its strategies could apply does not
\* fail the run: the result is only written to dropdown_warning.txt or
\* logged, and the flow goes on to the submission; a strategy that fails
\* before a later one succeeds is not fatal either.
C10_FilterFailureNotFatal ==
    [][/\ pc = "filters" => (pc' = "status" /\ warning' /\ ~raised')
       /\ pc = "status" => (pc' = "show" /\ ~raised')]_vars

C10_Witness ==
    /\ pc = "finish"
    /\ ok_dl
    /\ ok["circle"] = "failed"
    /\ ok["status"] = "failed"
    /\ submits >= 1


NoClick == "Could not click Show Report"

\* C11 as stated: after a submission whose check shows data rows or the
\* empty-result marker, the run makes no further submission.
C11_StopsAtRowsOrMarker ==
    [][(pc = "retry" /\ (page.rows \/ page.marker)) => submits' = submits]_vars

\* C11 amended: a run makes at most two submissions, the first and one
\* retry; the retry is made only after a submission whose check showed
\* neither data rows nor a dated Period line, marker or not.
C11_AtMostTwoSubmissions ==
    [][/\ submits' <= 2
       /\ (submits >= 1 /\ submits' = submits + 1)
            => ~(page.rows \/ TwoDateTokens(page.period))]_vars

C11_Witness ==
    /\ pc = "gate"
    /\ submits = 2
    /\ page.marker
    /\ ok_show

\* C12 as stated: an unsatisfied first check is always followed by one more
\* submission attempt, whatever default dates were captured.
C12_AlwaysRetried ==
    [][pc = "retry" => (submits' = submits + 1 \/ err' = NoClick)]_vars

\* C12 amended: an unsatisfied first check is followed by exactly one more
\* submission attempt when both default dates were captured non-empty;
\* when one of them is empty there is no retry and the run fails with
\* "Show Report did not produce data".
C12_RetriedWhenDatesCaptured ==
    [][/\ pc = "retry" =>
            IF captured_from # "" /\ captured_to # ""
            THEN (submits = 1 /\ submits' = 2 /\ pc' = "gate") \/ err' = NoClick
            ELSE submits' = submits /\ pc' = "gate" /\ ~ok_show'
       /\ (pc = "gate" /\ ~ok_show) =>
            (err' = NoData /\ runState'[run] = "failed")]_vars

C12_Witness ==
    /\ pc = "gate"
    /\ ~ok_show
    /\ submits = 1
    /\ captured_to = ""

\* C15: whenever select_status could not select the option on the native
\* paths, it has gone on to the overlay-menu (bootstrap) path.
C15_StatusFallsThroughToOverlay ==
    (pc = "show" /\ ok["status"] = "failed") =>
        tried["status"][Len(tried["status"])] = "bootstrap"

\* C20: the export is triggered only when the last submission passed the
\* check and the Period text has two date tokens; a run none of whose
\* submissions passed fails with an error and triggers no export.
C20_ExportOnlyWhenReady ==
    [][/\ Len(strat') > Len(strat)
            => (ok_show /\ TwoDateTokens(page.period) /\ submits >= 1)
       /\ (pc = "gate" /\ ~ok_show)
            => /\ err' = NoData
               /\ runState'[run] = "failed"
               /\ exitCode' = 1
               /\ strat' = <<>>]_vars

C20_Witness ==
    /\ pc = "done"
    /\ err = NoData
    /\ submits = 2
    /\ strat = <<>>
    /\ exitCode = 1


\* C17: the order of operations of the workflow is fixed. Circle Office is
\* assigned before Division Office; a submission happens only when the
\* three common filters and the status of the run have been assigned, on the
\* open session; the PENDING run starts only when the DELAYED run has saved
\* its file, on the same open session; the session closes without a failure
\* only when both runs have saved their files.
C17_FixedOrder ==
    [][/\ \A i, j \in 1..Len(assigned') :
            (assigned'[i] = "division" /\ assigned'[j] = "circle") => j < i
       /\ submits' > submits =>
            /\ session = "open"
            /\ \A f \in {"circle", "division", "nature"} :
                 \E i \in 1..Len(assigned) : assigned[i] = f
            /\ Cardinality({i \in 1..Len(assigned) : assigned[i] = "status"}) = run
       /\ (runState[2] = "notstarted" /\ runState'[2] # "notstarted") =>
            /\ runState[1] = "saved"
            /\ session = "open"
            /\ session' = "open"
       /\ (session = "open" /\ session' = "closed") =>
            \/ pc' = "done"
            \/ \A r \in Runs : runState'[r] = "saved"
       /\ session = "closed" => session' = "closed"]_vars

C17_Witness ==
    /\ pc = "telegram"
    /\ session = "closed"
    /\ assigned = <<"circle", "division", "nature", "status", "status">>
    /\ \A r \in Runs : runState[r] = "saved"

\* C18: in one click_and_wait_download call DirectDownload is the first
\* strategy attempted; PopupWindow is attempted only second and only when the
\* DirectDownload of the same call failed, never after a DirectDownload that
\* saved a file; the call returns a boolean and raises nothing.
C18_PopupOnlyAfterFailedDirect ==
    [][(pc = "dl1" \/ pc = "dl2" \/ pc = "dl3") =>
        (LET added == SubSeq(strat', Len(strat) + 1, Len(strat')) IN
         /\ ~raised' /\ pc' # "done" /\ err' = err
         /\ lastCall'.ok \in BOOLEAN
         /\ Len(added) >= 1 /\ added[1] = "DirectDownload"
         /\ \A i \in 1..Len(added) :
              added[i] = "PopupWindow" => (i = 2 /\ lastCall'.direct = "failed")
         /\ lastCall'.direct = "saved" =>
              (added = <<"DirectDownload">> /\ lastCall'.popup = "none" /\ lastCall'.ok)
         /\ lastCall'.ok = (lastCall'.direct = "saved" \/ lastCall'.popup = "saved"))]_vars

C18_Witness ==
    /\ pc = "finish"
    /\ lastCall = [direct |-> "failed", popup |-> "saved", ok |-> TRUE]
    /\ strat = <<"DirectDownload", "PopupWindow">>


\* C13: the wait of select_division for Division Office completes as soon as
\* the first of its two conditions is satisfied (a matching response
\* observed, or the options counted): the await returns at the tick at
\* which a condition was first satisfied.
C13_ReturnsAtFirstCondition ==
    (gather.phase = "returned" /\ gather.firstAt # Never) =>
        gather.doneAt = gather.firstAt

\* C14: when the wanted text is the text of one of the control's options and
\* select_status reports success, the selected option is the one with
\* exactly that text.
C14_SelectsExactText ==
    (/\ statusCtl.phase = "applied"
     /\ statusCtl.ok
     /\ ExactAt(statusCtl.options, statusCtl.wanted) # {}) =>
        statusCtl.options[statusCtl.selected] = statusCtl.wanted

C19_CommitsToFirstMatch ==
    resolution.phase = "done" => Len(resolution.used) <= 1

\* C19: the candidates are used in their fixed order. _native_select calls
\* select_option on every candidate that matches an element, in order, up to
\* the first one on which the selection succeeds, and on none after it; it
\* fails when the selection succeeded on none. The resolution of
\* select_division uses the first candidate that matches and no other.
C19_UsesMatchesUntilOneTakes ==
    resolution.phase = "done" =>
        LET c == resolution.cands
            u == resolution.used
            M == {i \in 1..Len(c) : c[i] # "none"}
            U == {u[k] : k \in 1..Len(u)}
        IN
        /\ \A j, k \in 1..Len(u) : j < k => u[j] < u[k]
        /\ U \subseteq M
        /\ resolution.fn = "native" =>
             /\ \A k \in 1..(Len(u) - 1) : c[u[k]] = "refuses"
             /\ resolution.ok = (\E i \in M : c[i] = "takes")
             /\ resolution.ok => (c[u[Len(u)]] = "takes" /\ resolution.sel = u[Len(u)]
                                  /\ U = {i \in M : i <= resolution.sel})
             /\ ~resolution.ok => U = M
        /\ resolution.fn = "division" =>
             /\ M # {} => (u = <<Min(M)>> /\ resolution.sel = Min(M))
             /\ M = {} => u = <<>>

C19_Witness ==
    /\ resolution.phase = "done"
    /\ resolution.fn = "native"
    /\ resolution.cands[1] = "refuses"
    /\ resolution.cands[2] = "takes"
    /\ resolution.used = <<1, 2>>
    /\ resolution.ok


\* C21: one acquisition step (download_report_pdf_with_checks) makes at most
\* two calls of click_and_wait_download before it returns, whatever the path
\* (small file, missing file). Every call starts with DirectDownload.
C21_AtMostTwoDownloadCalls ==
    Cardinality({i \in 1..Len(strat) : strat[i] = "DirectDownload"}) <= 2


\* C22: when non-empty default From and To dates were captured, both date
\* inputs hold a non-empty value at the moment Show Report is triggered, also
\* when the host page clears them between the pre-submit restore and the
\* click.
C22_DatesPresentAtEveryTrigger ==
    [][(submits' = submits + 1 /\ captured_from # "" /\ captured_to # "") =>
         (fromVal' # "" /\ toVal' # "")]_vars


GotoFailed == "goto"

\* C23: page.goto is attempted at most twice, and the flow goes on to the
\* login step whenever one of the attempts succeeded: a run whose navigation
\* succeeded does not end with the navigation's exception.
C23_SuccessfulAttemptProceeds ==
    /\ gotoTries <= 2
    /\ navigated => ~(pc = "done" /\ raised /\ err = GotoFailed)


\* C24: send_via_telegram is called only when both runs have saved their
\* file, and uploads only the files of those two runs, in their order; when
\* a run failed it is not called and nothing is uploaded.
C24_DeliveryOnlyAfterBothRuns ==
    /\ (pc = "telegram" \/ tgLog # <<>> \/ tgFailed) =>
           \A r \in Runs : runState[r] = "saved"
    /\ \A i \in 1..Len(tgLog) :
           /\ tgLog[i].file = i
           /\ tgLog[i].file \in Runs
           /\ runState[tgLog[i].file] = "saved"
    /\ (\E r \in Runs : runState[r] = "failed") =>
           (pc # "telegram" /\ tgLog = <<>> /\ ~tgFailed)

C24_Witness ==
    /\ pc = "done"
    /\ Len(tgLog) = Len(Statuses)
    /\ \A r \in Runs : runState[r] = "saved" /\ tgLog[r].result = "200"


CommonFilters == {"circle", "division", "nature"}

\* C25: Circle Office, Division Office and Nature Of Application are
\* assigned exactly once, before the first status selection; the steps of
\* set_status_and_download assign only the Status control and leave the
\* results of the three common filters as they were, so the PENDING run
\* works on the selections made before the DELAYED run.
C25_CommonFiltersAssignedOnce ==
    [][/\ \A f \in CommonFilters :
            Cardinality({i \in 1..Len(assigned') : assigned'[i] = f}) <= 1
       /\ \A i, j \in 1..Len(assigned') :
            (assigned'[i] = "status" /\ assigned'[j] \in CommonFilters) => j < i
       /\ (Len(assigned') > 0 /\ assigned'[Len(assigned')] = "status") =>
            \A f \in CommonFilters : \E i \in 1..Len(assigned') : assigned'[i] = f
       /\ pc # "filters" =>
            /\ \A f \in CommonFilters : ok'[f] = ok[f]
            /\ \A i \in (Len(assigned) + 1)..Len(assigned') :
                 assigned'[i] \notin CommonFilters]_vars

C25_Witness ==
    /\ run = 2
    /\ pc = "show"
    /\ assigned = <<"circle", "division", "nature", "status", "status">>

====
